---- MODULE Spec2Model ----
(***************************************************************************)
(* Model of the S3 upload pipeline of s3.go: the path filter               *)
(* (isUploadableFile), the enumerator (sourceFiles, a filepath.Walk        *)
(* callback), one upload attempt (uploadFile) and the orchestrator         *)
(* (Upload: a closed buffered channel drained by `parallel` goroutines,    *)
(* each retrying with a goto, adding to a shared counter atomically).      *)
(*                                                                         *)
(* Strings are sequences of one-character strings, so that TrimPrefix,     *)
(* slicing and glob matching are computed, not assumed.                    *)
(***************************************************************************)
EXTENDS Integers, Sequences, FiniteSets, TLC

\* ------------------------------------------------------------------ bounds
\* Largest number of regular files directly under the source root (Spec).
MaxFiles == 2
\* Largest value of the `parallel` argument of Upload.
MaxParallel == 2

\* ------------------------------------------------------- program constants
\* numRetries := 30 (s3.go:196)
MaxRetries == 30

\* Go's nil error.
Nil == "nil"

\* ------------------------------------------------------------------ strings
\* strings.HasPrefix
HasPrefix(s, prefix) ==
    /\ Len(prefix) <= Len(s)
    /\ SubSeq(s, 1, Len(prefix)) = prefix

\* strings.TrimPrefix(path, s.SourcePath), s3.go:89
TrimPrefix(s, prefix) ==
    IF HasPrefix(s, prefix) THEN SubSeq(s, Len(prefix) + 1, Len(s)) ELSE s

\* filepath.Join(dir, name) as filepath.Walk uses it for a cleaned dir and a
\* plain entry name: one separator between them, none doubled after "/".
JoinName(dir, name) ==
    IF dir = <<"/">> THEN dir \o name ELSE dir \o <<"/">> \o name

\* --------------------------------------------------------------- zglob.Match
\* A pattern whose "[" is never closed does not compile.
Malformed(pat) ==
    \E i \in 1..Len(pat) :
        /\ pat[i] = "["
        /\ \A j \in (i + 1)..Len(pat) : pat[j] # "]"

RECURSIVE GlobMatch(_, _)
\* Shell-glob match of a whole name: "**/" is any run of whole directories
\* (none included), "*" is any run of non-separators, "?" is one
\* non-separator, every other character stands for itself.
GlobMatch(pat, name) ==
    IF pat = <<>> THEN name = <<>>
    ELSE IF Len(pat) >= 3 /\ SubSeq(pat, 1, 3) = <<"*", "*", "/">> THEN
        \E i \in 0..Len(name) :
            /\ i > 0 => name[i] = "/"
            /\ GlobMatch(SubSeq(pat, 4, Len(pat)), SubSeq(name, i + 1, Len(name)))
    ELSE IF Head(pat) = "*" THEN
        \E i \in 0..Len(name) :
            /\ \A j \in 1..i : name[j] # "/"
            /\ GlobMatch(Tail(pat), SubSeq(name, i + 1, Len(name)))
    ELSE IF name = <<>> THEN FALSE
    ELSE IF Head(pat) = "?" THEN
        Head(name) # "/" /\ GlobMatch(Tail(pat), Tail(name))
    ELSE Head(pat) = Head(name) /\ GlobMatch(Tail(pat), Tail(name))

\* match, err := zglob.Match(pat, path), s3.go:73
Match(pat, name) ==
    IF Malformed(pat) THEN [match |-> FALSE, err |-> "ErrBadPattern"]
    ELSE [match |-> GlobMatch(pat, name), err |-> Nil]

RECURSIVE isUploadableFileSwallow(_, _)
\* isUploadableFile without lines 74-76: a pattern error counts as no match.
isUploadableFileSwallow(ignore, path) ==
    IF ignore = <<>> THEN [ok |-> TRUE, err |-> Nil]
    ELSE LET m == Match(Head(ignore), path) IN
         IF m.match THEN [ok |-> FALSE, err |-> Nil]
         ELSE isUploadableFileSwallow(Tail(ignore), path)

RECURSIVE isUploadableFile(_, _)
\* s3.go:71-82. The loop over s.Config.S3.Ignore, first pattern first.
isUploadableFile(ignore, path) ==
    IF ignore = <<>> THEN [ok |-> TRUE, err |-> Nil]
    ELSE LET m == Match(Head(ignore), path) IN
         IF m.err # Nil THEN [ok |-> FALSE, err |-> m.err]
         ELSE IF m.match THEN [ok |-> FALSE, err |-> Nil]
         ELSE isUploadableFile(Tail(ignore), path)

\* ----------------------------------------------------------- directory tree
\* One entry of the source tree as the walk meets it. name: the entry's name
\* (the root's: its absolute path); isDir: what Lstat/Stat report; lstatErr:
\* filepath.Walk's Lstat of the entry fails; readErr: reading the directory's
\* names fails; statErr: the callback's os.Stat fails; kids: the directory's
\* entries in lexical order.
Node(name, isDir, lstatErr, readErr, statErr, kids) ==
    [name |-> name, isDir |-> isDir, lstatErr |-> lstatErr,
     readErr |-> readErr, statErr |-> statErr, kids |-> kids]

FileNode(name) == Node(name, FALSE, FALSE, FALSE, FALSE, <<>>)
DirNode(name, kids) == Node(name, TRUE, FALSE, FALSE, FALSE, kids)

\* The walk callback, s3.go:88-116. `files` is the slice the closure appends
\* to. walkErr is the error filepath.Walk hands in; line 96 assigns over it
\* before anything reads it.
WalkFn(source, ignore, files, path, node, walkErr) ==
    LET trimmed == TrimPrefix(path, source) IN
    IF trimmed = <<>> THEN [files |-> files, err |-> Nil]
    ELSE LET cpath == Tail(trimmed)
             up == isUploadableFile(ignore, cpath)
         IN  IF up.err # Nil THEN [files |-> files, err |-> up.err]
             ELSE IF ~up.ok THEN [files |-> files, err |-> Nil]
             ELSE IF node.statErr THEN [files |-> files, err |-> "StatError"]
             ELSE IF node.isDir THEN [files |-> files, err |-> Nil]
             ELSE [files |-> Append(files, cpath), err |-> Nil]

RECURSIVE walk(_, _, _, _, _), walkKids(_, _, _, _, _)
\* filepath.walk: the callback on the entry, then on each name of a directory
\* that could be read. The callback never returns SkipDir.
walk(source, ignore, files, path, node) ==
    IF ~node.isDir THEN WalkFn(source, ignore, files, path, node, Nil)
    ELSE LET r == WalkFn(source, ignore, files, path, node,
                         IF node.readErr THEN "ReadDirError" ELSE Nil)
         IN  IF node.readErr \/ r.err # Nil THEN r
             ELSE walkKids(source, ignore, r.files, path, node.kids)

walkKids(source, ignore, files, path, kids) ==
    IF kids = <<>> THEN [files |-> files, err |-> Nil]
    ELSE LET kid == Head(kids)
             filename == JoinName(path, kid.name)
             r == IF kid.lstatErr
                  THEN WalkFn(source, ignore, files, filename, kid, "LstatError")
                  ELSE walk(source, ignore, files, filename, kid)
         IN  IF r.err # Nil THEN r
             ELSE walkKids(source, ignore, r.files, path, Tail(kids))

\* filepath.Walk(source, fn), s3.go:88
Walk(source, ignore, root) ==
    IF root.lstatErr
    THEN WalkFn(source, ignore, <<>>, root.name, root, "LstatError")
    ELSE walk(source, ignore, <<>>, root.name, root)

\* s3.go:84-123
sourceFiles(source, ignore, root) ==
    LET r == Walk(source, ignore, root) IN
    IF r.err # Nil THEN [files |-> <<>>, err |-> r.err]
    ELSE [files |-> r.files, err |-> Nil]

RECURSIVE WalkReports(_)
\* The walk hands the callback a non-nil error for some entry it reaches
\* (ignore patterns aside): an Lstat failure, or a directory it cannot read.
WalkReports(node) ==
    \/ node.lstatErr
    \/ node.isDir /\ node.readErr
    \/ /\ node.isDir
       /\ \E i \in 1..Len(node.kids) : WalkReports(node.kids[i])

\* ------------------------------------------------------------ filepath.Join
\* The elements of a path between its separators; "a//b" has an empty one.
RECURSIVE Split(_)
Split(s) ==
    IF \A i \in 1..Len(s) : s[i] # "/" THEN <<s>>
    ELSE LET k == CHOOSE i \in 1..Len(s) :
                      s[i] = "/" /\ \A j \in 1..(i - 1) : s[j] # "/"
         IN  <<SubSeq(s, 1, k - 1)>> \o Split(SubSeq(s, k + 1, Len(s)))

\* filepath.Clean of a rooted path, element by element: empty elements and "."
\* are dropped, ".." removes the element before it and is dropped at the root.
RECURSIVE CleanSegs(_, _)
CleanSegs(segs, out) ==
    IF segs = <<>> THEN out
    ELSE LET e == Head(segs)
         IN  IF e = <<>> \/ e = <<".">> THEN CleanSegs(Tail(segs), out)
             ELSE IF e = <<".", ".">>
                  THEN CleanSegs(Tail(segs),
                                 IF out = <<>> THEN out
                                 ELSE SubSeq(out, 1, Len(out) - 1))
                  ELSE CleanSegs(Tail(segs), Append(out, e))

RECURSIVE Glue(_)
Glue(segs) ==
    IF segs = <<>> THEN <<>>
    ELSE IF Len(segs) = 1 THEN segs[1]
    ELSE segs[1] \o <<"/">> \o Glue(Tail(segs))

\* filepath.Clean for a path that starts with the separator.
Clean(path) == <<"/">> \o Glue(CleanSegs(Split(path), <<>>))

\* strings.Join(elems, "/")
RECURSIVE Concat(_)
Concat(elems) ==
    IF elems = <<>> THEN <<>>
    ELSE IF Len(elems) = 1 THEN elems[1]
    ELSE elems[1] \o <<"/">> \o Concat(Tail(elems))

\* Line 140 without filepath.Join's Clean: the bare concatenation.
destPathConcat(prefix, path) == <<"/">> \o prefix \o <<"/">> \o path

\* destPath := filepath.Join("/", s.Config.S3.Prefix, path), s3.go:140. The
\* first element is never empty, so Join cleans the three joined by "/".
destPath(prefix, path) == Clean(Concat(<< <<"/">>, prefix, path >>))

\* --------------------------------------------------------------- uploadFile
\* uploadFile without line 170, num += 1.
uploadFileNoCount(path, dry, open, send) ==
    IF open # Nil THEN [num |-> 0, err |-> open, put |-> FALSE]
    ELSE IF ~dry THEN
        IF send # Nil THEN [num |-> 0, err |-> send, put |-> TRUE]
        ELSE [num |-> 0, err |-> Nil, put |-> TRUE]
    ELSE [num |-> 0, err |-> Nil, put |-> FALSE]

\* uploadFile without the test of line 165, if !dryrun.
uploadFileAlwaysSends(path, dry, open, send) ==
    IF open # Nil THEN [num |-> 0, err |-> open, put |-> FALSE]
    ELSE IF send # Nil THEN [num |-> 0, err |-> send, put |-> TRUE]
    ELSE [num |-> 1, err |-> Nil, put |-> TRUE]

\* uploadFile with line 170, num += 1, moved out of the test of line 165.
uploadFileCountsDry(path, dry, open, send) ==
    IF open # Nil THEN [num |-> 0, err |-> open, put |-> FALSE]
    ELSE IF ~dry THEN
        IF send # Nil THEN [num |-> 0, err |-> send, put |-> TRUE]
        ELSE [num |-> 1, err |-> Nil, put |-> TRUE]
    ELSE [num |-> 1, err |-> Nil, put |-> FALSE]

\* s3.go:125-174. open: the error of os.Open (line 129); send: the error of
\* req.Send (line 167). put tells whether the put request was issued.
uploadFile(path, dry, open, send) ==
    IF open # Nil THEN [num |-> 0, err |-> open, put |-> FALSE]
    ELSE IF ~dry THEN
        IF send # Nil THEN [num |-> 0, err |-> send, put |-> TRUE]
        ELSE [num |-> 1, err |-> Nil, put |-> TRUE]
    ELSE [num |-> 0, err |-> Nil, put |-> FALSE]

\* Line 200 taking every error for a service error.
IsAnyErr(err) == err # Nil

\* Line 200 taking the *os.PathError of os.Open for a service error too.
IsAwsOrPathErr(err) == err \in {"awserr", "PathError"}

\* _, ok := err.(awserr.Error), s3.go:200
IsAwsErr(err) == err = "awserr"

\* Line 203 with >= for >.
ShouldRetryOnZero(retries) == retries >= 0

\* if numRetries > 0, s3.go:203
ShouldRetry(retries) == retries > 0

\* Upload without lines 178-180.
EnumNeverFailed(err) == FALSE

\* if err != nil { return 0, err }, s3.go:178-180
EnumFailed(err) == err # Nil

\* Line 215 storing n instead of adding it.
StoreUint64(val, delta) == delta

\* atomic.AddUint64(&num, uint64(n)), s3.go:215. The sum is at most the number
\* of paths, far below 2^64, so the addition never wraps.
AddUint64(val, delta) == val + delta

\* A receive that leaves the path in the channel.
RecvPeek(ch) == [val |-> Head(ch), rest |-> ch]

\* path := <-fch on the closed, buffered channel, s3.go:195
Recv(ch) == [val |-> Head(ch), rest |-> Tail(ch)]

\* -------------------------------------------------------------------- state
VARIABLES
    SourcePath, \* s.SourcePath, s3.go:27
    tree,       \* the directory tree under the source root
    ignore,     \* s.Config.S3.Ignore
    parallel,   \* Upload's argument
    dryrun,     \* Upload's argument
    flaky,      \* the task, if any, whose put requests the store may fail
    probe,      \* the argument of a function called on its own
    verdict,    \* what that call returned, or NoVerdict
    phase,      \* where the goroutine that called Upload is
    files,      \* files, s3.go:177
    enumErr,    \* err, s3.go:177
    fch,        \* the channel's buffer, s3.go:182
    launched,   \* i, s3.go:191
    wg,         \* the WaitGroup's counter
    num,        \* the shared counter, s3.go:188
    ret,        \* what Upload returned, or NoRet
    crashed,    \* the runtime ended the process after a panic
    pc,         \* per worker: where it is
    cur,        \* per worker: index in files of the path it holds, or 0
    numRetries, \* per worker: numRetries, s3.go:196
    n,          \* per worker: n, s3.go:198
    status,     \* per task: Pending, InFlight, RetryPending, Success, Fatal
    attempts,   \* per task: calls of uploadFile
    fails,      \* per task: calls that returned an awserr.Error
    puts,       \* per task: put requests issued
    deq,        \* per task: times received from the channel
    added,      \* per task: what was added to num for it
    lastErr     \* per task: the error of the latest uploadFile call

cfgvars == <<SourcePath, tree, ignore, parallel, dryrun, flaky, probe, verdict>>
mainvars == <<phase, files, enumErr, fch, launched, wg, num, ret, crashed>>
workervars == <<pc, cur, numRetries, n>>
taskvars == <<status, attempts, fails, puts, deq, added, lastErr>>
vars == <<cfgvars, mainvars, workervars, taskvars>>

NoRet == [num |-> 0, err |-> "none"]
NoVerdict == [done |-> FALSE]
Workers == 1..MaxParallel
Tasks == 1..Len(files)

\* ------------------------------------------------------------------ inputs
Names == <<"a", "b", "c", "d", "e", "f">>
Root == <<"/", "r">>

\* The root with k regular files, all readable.
FlatTree(k) == DirNode(Root, [i \in 1..k |-> FileNode(<<Names[i]>>)])

\* A file that vanished between the directory listing and the walk's Lstat.
GoneFile(name) == Node(name, FALSE, TRUE, FALSE, TRUE, <<>>)

SpecTrees ==
    {FlatTree(k) : k \in 0..MaxFiles}
        \cup {DirNode(Root, <<FileNode(<<"a">>), GoneFile(<<"b">>)>>),
              Node(Root, TRUE, TRUE, FALSE, TRUE, <<>>)}

SpecIgnores == {<<>>, << <<"a">> >>, << <<"[">> >>}

InitRest ==
    /\ phase = "start"
    /\ files = <<>>
    /\ enumErr = Nil
    /\ fch = <<>>
    /\ launched = 0
    /\ wg = 0
    /\ num = 0
    /\ ret = NoRet
    /\ crashed = FALSE
    /\ pc = [w \in Workers |-> "none"]
    /\ cur = [w \in Workers |-> 0]
    /\ numRetries = [w \in Workers |-> 0]
    /\ n = [w \in Workers |-> 0]
    /\ status = <<>>
    /\ attempts = <<>>
    /\ fails = <<>>
    /\ puts = <<>>
    /\ deq = <<>>
    /\ added = <<>>
    /\ lastErr = <<>>

\* The object store may fail every put request of one path, any one, with an
\* awserr.Error, or, when a single worker handles the paths one after the
\* other, of every path; os.Open may fail on any attempt of any path.
Init ==
    /\ SourcePath = Root
    /\ tree \in SpecTrees
    /\ ignore \in SpecIgnores
    /\ parallel \in -1..MaxParallel
    /\ dryrun \in BOOLEAN
    /\ flaky \in {{}} \cup {{t} : t \in 1..MaxFiles}
                    \cup (IF parallel = 1 THEN {1..MaxFiles} ELSE {})
    /\ probe = <<>>
    /\ verdict = NoVerdict
    /\ InitRest

\* ------------------------------------------------------------ Upload, main
Running == ~crashed

\* s3.go:177-180
Enumerate ==
    /\ Running
    /\ phase = "start"
    /\ LET r == sourceFiles(SourcePath, ignore, tree)
           zero == [i \in 1..Len(r.files) |-> 0]
       IN  /\ files' = r.files
           /\ enumErr' = r.err
           /\ status' = [i \in 1..Len(r.files) |-> "Pending"]
           /\ attempts' = zero
           /\ fails' = zero
           /\ puts' = zero
           /\ deq' = zero
           /\ added' = zero
           /\ lastErr' = [i \in 1..Len(r.files) |-> "none"]
           /\ IF EnumFailed(r.err)
              THEN phase' = "returned" /\ ret' = [num |-> 0, err |-> r.err]
              ELSE phase' = "load" /\ ret' = ret
    /\ UNCHANGED <<cfgvars, fch, launched, wg, num, crashed, workervars>>

\* s3.go:182-190: make the channel, fill it, close it.
LoadQueue ==
    /\ Running
    /\ phase = "load"
    /\ fch' = files
    /\ num' = 0
    /\ launched' = 0
    /\ phase' = "launch"
    /\ UNCHANGED <<cfgvars, files, enumErr, wg, ret, crashed, workervars, taskvars>>

\* Lines 191-193 as a loop that tests i < parallel after its body.
LaunchThenTest ==
    /\ Running
    /\ phase = "launch"
    /\ launched < parallel \/ launched = 0
    /\ wg' = wg + 1
    /\ launched' = launched + 1
    /\ pc' = [pc EXCEPT ![launched + 1] = "range"]
    /\ UNCHANGED <<cfgvars, phase, files, enumErr, fch, num, ret, crashed,
                   cur, numRetries, n, taskvars>>

\* s3.go:191-193: one turn of the loop, wg.Add(1) and the go statement.
Launch ==
    /\ Running
    /\ phase = "launch"
    /\ launched < parallel
    /\ wg' = wg + 1
    /\ launched' = launched + 1
    /\ pc' = [pc EXCEPT ![launched + 1] = "range"]
    /\ UNCHANGED <<cfgvars, phase, files, enumErr, fch, num, ret, crashed,
                   cur, numRetries, n, taskvars>>

\* s3.go:220-221: the loop is over, wg.Wait() returns at zero, return num.
WaitReturn ==
    /\ Running
    /\ phase = "launch"
    /\ ~(launched < parallel)
    /\ wg = 0
    /\ phase' = "returned"
    /\ ret' = [num |-> num, err |-> Nil]
    /\ UNCHANGED <<cfgvars, files, enumErr, fch, launched, wg, num, crashed,
                   workervars, taskvars>>

\* ------------------------------------------------------------ Upload, worker
\* Line 195 with line 196, numRetries := 30, moved in front of the loop.
WorkerRecvNoReset(w) ==
    /\ Running
    /\ pc[w] = "range"
    /\ fch # <<>>
    /\ LET r == Recv(fch)
           t == Len(files) - Len(fch) + 1
       IN  /\ fch' = r.rest
           /\ cur' = [cur EXCEPT ![w] = t]
           /\ status' = [status EXCEPT ![t] = "InFlight"]
           /\ deq' = [deq EXCEPT ![t] = @ + 1]
    /\ numRetries' = [numRetries EXCEPT
                         ![w] = IF cur[w] = 0 THEN MaxRetries ELSE @]
    /\ pc' = [pc EXCEPT ![w] = "upload"]
    /\ UNCHANGED <<cfgvars, phase, files, enumErr, launched, wg, num, ret,
                   crashed, n, attempts, fails, puts, added, lastErr>>

\* s3.go:195-196: receive a path, numRetries := 30.
WorkerRecv(w) ==
    /\ Running
    /\ pc[w] = "range"
    /\ fch # <<>>
    /\ LET r == Recv(fch)
           t == Len(files) - Len(fch) + 1
       IN  /\ fch' = r.rest
           /\ cur' = [cur EXCEPT ![w] = t]
           /\ status' = [status EXCEPT ![t] = "InFlight"]
           /\ deq' = [deq EXCEPT ![t] = @ + 1]
    /\ numRetries' = [numRetries EXCEPT ![w] = MaxRetries]
    /\ pc' = [pc EXCEPT ![w] = "upload"]
    /\ UNCHANGED <<cfgvars, phase, files, enumErr, launched, wg, num, ret,
                   crashed, n, attempts, fails, puts, added, lastErr>>

\* The end of the loop of line 195 without line 194, defer wg.Done().
WorkerExitNoDone(w) ==
    /\ Running
    /\ pc[w] = "range"
    /\ fch = <<>>
    /\ pc' = [pc EXCEPT ![w] = "exited"]
    /\ UNCHANGED <<cfgvars, phase, files, enumErr, fch, launched, wg, num, ret,
                   crashed, cur, numRetries, n, taskvars>>

\* s3.go:195, 194: the channel is closed and empty, the deferred wg.Done().
WorkerExit(w) ==
    /\ Running
    /\ pc[w] = "range"
    /\ fch = <<>>
    /\ pc' = [pc EXCEPT ![w] = "exited"]
    /\ wg' = wg - 1
    /\ UNCHANGED <<cfgvars, phase, files, enumErr, fch, launched, num, ret,
                   crashed, cur, numRetries, n, taskvars>>

\* s3.go:198-214: one call of uploadFile and the branch on its error. A panic
\* runs the deferred wg.Done() of line 194 before the runtime ends the process.
WorkerUpload(w) ==
    /\ Running
    /\ pc[w] = "upload"
    /\ \E open \in {Nil, "PathError"},
          send \in (IF cur[w] \in flaky THEN {Nil, "awserr"} ELSE {Nil}) :
        LET t == cur[w]
            r == uploadFile(files[t], dryrun, open, send)
            left == numRetries[w] - 1
        IN  /\ attempts' = [attempts EXCEPT ![t] = @ + 1]
            /\ puts' = [puts EXCEPT ![t] = @ + (IF r.put THEN 1 ELSE 0)]
            /\ n' = [n EXCEPT ![w] = r.num]
            /\ lastErr' = [lastErr EXCEPT ![t] = r.err]
            /\ IF r.err # Nil
               THEN IF IsAwsErr(r.err)
                    THEN /\ numRetries' = [numRetries EXCEPT ![w] = left]
                         /\ fails' = [fails EXCEPT ![t] = @ + 1]
                         /\ IF ShouldRetry(left)
                            THEN /\ pc' = [pc EXCEPT ![w] = "sleep"]
                                 /\ status' = [status EXCEPT ![t] = "RetryPending"]
                                 /\ wg' = wg
                            ELSE /\ pc' = [pc EXCEPT ![w] = "panicked"]
                                 /\ status' = [status EXCEPT ![t] = "Fatal"]
                                 /\ wg' = wg - 1
                    ELSE /\ pc' = [pc EXCEPT ![w] = "panicked"]
                         /\ status' = [status EXCEPT ![t] = "Fatal"]
                         /\ wg' = wg - 1
                         /\ UNCHANGED <<numRetries, fails>>
               ELSE /\ pc' = [pc EXCEPT ![w] = "add"]
                    /\ status' = [status EXCEPT ![t] = "Success"]
                    /\ UNCHANGED <<numRetries, fails, wg>>
    /\ UNCHANGED <<cfgvars, phase, files, enumErr, fch, launched, num, ret,
                   crashed, cur, deq, added>>

\* Lines 206-207 with the goto leaving for the next path of the channel.
WorkerWakeNext(w) ==
    /\ Running
    /\ pc[w] = "sleep"
    /\ pc' = [pc EXCEPT ![w] = "range"]
    /\ UNCHANGED <<cfgvars, mainvars, cur, numRetries, n, taskvars>>

\* s3.go:206-207: the second is over, goto RETRY.
WorkerWake(w) ==
    /\ Running
    /\ pc[w] = "sleep"
    /\ pc' = [pc EXCEPT ![w] = "upload"]
    /\ status' = [status EXCEPT ![cur[w]] = "InFlight"]
    /\ UNCHANGED <<cfgvars, mainvars, cur, numRetries, n, attempts, fails,
                   puts, deq, added, lastErr>>

\* Line 215 followed by a jump back to RETRY instead of the next receive.
WorkerAddRetry(w) ==
    /\ Running
    /\ pc[w] = "add"
    /\ num' = AddUint64(num, n[w])
    /\ added' = [added EXCEPT ![cur[w]] = @ + n[w]]
    /\ pc' = [pc EXCEPT ![w] = "upload"]
    /\ UNCHANGED <<cfgvars, phase, files, enumErr, fch, launched, wg, ret,
                   crashed, cur, numRetries, n, status, attempts, fails, puts,
                   deq, lastErr>>

\* s3.go:215
WorkerAdd(w) ==
    /\ Running
    /\ pc[w] = "add"
    /\ num' = AddUint64(num, n[w])
    /\ added' = [added EXCEPT ![cur[w]] = @ + n[w]]
    /\ pc' = [pc EXCEPT ![w] = "range"]
    /\ UNCHANGED <<cfgvars, phase, files, enumErr, fch, launched, wg, ret,
                   crashed, cur, numRetries, n, status, attempts, fails, puts,
                   deq, lastErr>>

\* s3.go:209, 212: an unrecovered panic ends the process once the panicking
\* goroutine's deferred calls have run; until then the others keep running.
Crash ==
    /\ Running
    /\ \E w \in Workers : pc[w] = "panicked"
    /\ crashed' = TRUE
    /\ UNCHANGED <<cfgvars, phase, files, enumErr, fch, launched, wg, num,
                   ret, workervars, taskvars>>

Next ==
    \/ Enumerate
    \/ LoadQueue
    \/ Launch
    \/ WaitReturn
    \/ \E w \in Workers : WorkerRecv(w)
    \/ \E w \in Workers : WorkerExit(w)
    \/ \E w \in Workers : WorkerUpload(w)
    \/ \E w \in Workers : WorkerWake(w)
    \/ \E w \in Workers : WorkerAdd(w)
    \/ Crash

Spec == Init /\ [][Next]_vars

\* Every step a goroutine can take: lines 195-216 for worker w.
WorkerStep(w) ==
    \/ WorkerRecv(w)
    \/ WorkerExit(w)
    \/ WorkerUpload(w)
    \/ WorkerWake(w)
    \/ WorkerAdd(w)

\* Lines 177-221 for the goroutine that called Upload.
MainStep == Enumerate \/ LoadQueue \/ Launch \/ WaitReturn

\* The Go scheduler leaves no runnable goroutine waiting forever, a sleep of
\* one second ends, and the runtime ends the process of a panicking goroutine.
SpecFair ==
    /\ Spec
    /\ WF_vars(MainStep)
    /\ \A w \in Workers : WF_vars(WorkerStep(w))
    /\ WF_vars(Crash)

\* ------------------------------------------------- the enumerator on its own
\* Trees of depth two: a file "a" and a directory "s" holding a file "c",
\* each present or not and each with every combination of failures.
FileVariants(name) ==
    {Node(name, FALSE, l, FALSE, s, <<>>) : l \in BOOLEAN, s \in BOOLEAN}

DirVariants(name, kidSeqs) ==
    {Node(name, TRUE, x[1], x[2], x[3], k) :
        x \in BOOLEAN \X BOOLEAN \X BOOLEAN, k \in kidSeqs}

SubKids == {<<>>} \cup {<<c>> : c \in FileVariants(<<"c">>)}

RootKids ==
    {<<>>}
        \cup {<<a>> : a \in FileVariants(<<"a">>)}
        \cup {<<d>> : d \in DirVariants(<<"s">>, SubKids)}
        \cup {<<y[1], y[2]>> :
                 y \in FileVariants(<<"a">>) \X DirVariants(<<"s">>, SubKids)}

\* The source roots: a directory below the file system's root, and that root.
EnumRoots == {Root, <<"/">>}

EnumTrees(source) ==
    {Node(source, x[1], x[2], x[3], FALSE, k) :
        x \in BOOLEAN \X BOOLEAN \X BOOLEAN, k \in RootKids}

EnumIgnores ==
    {<<>>,
     << <<"a">> >>,
     << <<"s">> >>,
     << <<"s", "/", "*">> >>,
     << <<"*">> >>,
     << <<"[">> >>,
     << <<"a">>, <<"[">> >>}

EnumInit ==
    /\ SourcePath \in EnumRoots
    /\ tree \in EnumTrees(SourcePath)
    /\ ignore \in EnumIgnores
    /\ parallel = 0
    /\ dryrun = FALSE
    /\ flaky = {}
    /\ probe = <<>>
    /\ verdict = NoVerdict
    /\ InitRest

SpecEnum == EnumInit /\ [][Enumerate]_vars

\* ------------------------------------------------ the path filter on its own
\* Largest number of ignore patterns.
MaxIgnore == 2

FilterPats ==
    {<<"a">>, <<"s">>, <<"*">>, <<"?">>, <<"a", "*">>, <<"s", "/", "*">>,
     <<"*", "*", "/", "c">>, <<"[">>}

FilterPaths ==
    {<<"a">>, <<"b">>, <<"a", "b">>, <<"s">>, <<"s", "/", "c">>,
     <<"s", "/", "t", "/", "c">>}

RECURSIVE SeqsUpTo(_, _)
\* The sequences over S of length at most k.
SeqsUpTo(S, k) ==
    IF k = 0 THEN {<<>>}
    ELSE LET shorter == SeqsUpTo(S, k - 1) IN
         shorter \cup {Append(q, x) : q \in shorter, x \in S}

FilterInit ==
    /\ SourcePath = Root
    /\ tree = FlatTree(0)
    /\ ignore \in SeqsUpTo(FilterPats, MaxIgnore)
    /\ parallel = 0
    /\ dryrun = FALSE
    /\ flaky = {}
    /\ probe \in FilterPaths
    /\ verdict = NoVerdict
    /\ InitRest

\* ok, err := s.isUploadableFile(cpath), s3.go:96
FilterCall ==
    /\ ~verdict.done
    /\ LET r == isUploadableFile(ignore, probe) IN
       verdict' = [done |-> TRUE, ok |-> r.ok, err |-> r.err]
    /\ UNCHANGED <<SourcePath, tree, ignore, parallel, dryrun, flaky, probe,
                   mainvars, workervars, taskvars>>

SpecFilter == FilterInit /\ [][FilterCall]_vars

\* ------------------------------------------- the destination key on its own
MaxPrefixLen == 3

KeyChars == {"p", "/", "."}

\* s.Config.S3.Prefix: whatever the configuration file holds.
KeyPrefixes == SeqsUpTo(KeyChars, MaxPrefixLen)

\* The paths sourceFiles can return: names below the root, and the two it
\* returns for the root "/".
KeyPaths == {<<"a">>, <<"s", "/", "c">>, <<"/", "c">>, <<>>}

KeyInit ==
    /\ SourcePath = Root
    /\ tree = FlatTree(0)
    /\ ignore = <<>>
    /\ parallel = 0
    /\ dryrun \in BOOLEAN
    /\ flaky = {}
    /\ probe \in [prefix : KeyPrefixes, path : KeyPaths]
    /\ verdict = NoVerdict
    /\ InitRest

\* s3.go:140-155: the key, the progress message and the put request's Key.
KeyCall ==
    /\ verdict = NoVerdict
    /\ LET key == destPath(probe.prefix, probe.path)
       IN  verdict' = [done |-> TRUE, msg |-> key, key |-> key]
    /\ UNCHANGED <<SourcePath, tree, ignore, parallel, dryrun, flaky, probe,
                   mainvars, workervars, taskvars>>

SpecKey == KeyInit /\ [][KeyCall]_vars

\* ------------------------------------------------------------------- claims
\* The live transfer of task t succeeded.
Live(t) == puts[t] > 0 /\ status[t] = "Success"

\* C1. A task whose every attempt fails with a service error is attempted
\* exactly 30 times: no task is ever attempted a 31st time, a task waits for
\* a retry only after at most 29 failures, the 30th failure makes it Fatal,
\* and a task made Fatal by service errors alone has had all 30 attempts.
RetryBound ==
    \A t \in Tasks :
        /\ attempts[t] <= 30
        /\ status[t] = "RetryPending" => fails[t] <= 29
        /\ (fails[t] = attempts[t] /\ attempts[t] = 30) => status[t] = "Fatal"
        /\ (fails[t] = attempts[t] /\ status[t] = "Fatal") => attempts[t] = 30

RetryBoundWitness ==
    \E t \in Tasks : status[t] = "Fatal" /\ fails[t] = 30 /\ attempts[t] = 30

\* C2. A task whose k-th attempt is the first to succeed (k in 1..30, the
\* k-1 before it failed with a service error) is in Success after exactly k
\* attempts, is never attempted again and never leaves Success, has exactly
\* 1 added to the total in live mode once its worker has passed the add, and
\* its worker does not panic over it.
SuccessAfterRetries ==
    /\ [](\A t \in Tasks :
            status[t] = "Success" =>
                /\ attempts[t] = fails[t] + 1
                /\ attempts[t] \in 1..30
                /\ \A w \in Workers : cur[w] = t => pc[w] # "panicked"
                /\ \/ \E w \in Workers : cur[w] = t /\ pc[w] = "add"
                   \/ added[t] = (IF dryrun THEN 0 ELSE 1))
    /\ [][\A t \in Tasks :
            status[t] = "Success" =>
                status'[t] = "Success" /\ attempts'[t] = attempts[t]]_vars

SuccessAfterRetriesWitness ==
    \E t \in Tasks :
        /\ status[t] = "Success"
        /\ fails[t] = 29
        /\ attempts[t] = 30
        /\ added[t] = 1
        /\ ~crashed

\* C3. In live mode, with N tasks that all succeed on their first attempt
\* and 1 <= parallel <= N, Upload returns N.
CountConservation ==
    ( /\ phase = "returned"
      /\ ret.err = Nil
      /\ ~dryrun
      /\ parallel \in 1..Len(files)
      /\ \A t \in Tasks : fails[t] = 0 /\ status[t] # "Fatal" )
        => ret.num = Len(files)

CountConservationWitness ==
    /\ phase = "returned"
    /\ ~dryrun
    /\ parallel = 2
    /\ Len(files) = 2
    /\ \A t \in Tasks : attempts[t] = 1 /\ status[t] = "Success"
    /\ \E w1, w2 \in Workers : w1 # w2 /\ cur[w1] = 1 /\ cur[w2] = 2
    /\ ret.num = 2

\* C4. A dry run issues no put request for any task, adds nothing to the
\* counter and returns 0.
DryRunNoOp ==
    dryrun =>
        /\ \A t \in Tasks : puts[t] = 0
        /\ num = 0
        /\ phase = "returned" => ret.num = 0

DryRunNoOpWitness ==
    /\ dryrun
    /\ phase = "returned"
    /\ Len(files) = 2
    /\ \A t \in Tasks : status[t] = "Success" /\ attempts[t] = 1
    /\ ret = [num |-> 0, err |-> Nil]

\* C5. Every task is received from the channel at most once, and no two
\* workers hold the same task.
NoDoubleProcessing ==
    /\ \A t \in Tasks : deq[t] <= 1
    /\ \A w1, w2 \in Workers :
        (w1 # w2 /\ cur[w1] # 0) => cur[w1] # cur[w2]

NoDoubleProcessingWitness ==
    /\ \A t \in Tasks : deq[t] = 1
    /\ \E w1, w2 \in Workers :
        /\ w1 # w2
        /\ pc[w1] = "sleep"
        /\ pc[w2] = "upload"
        /\ cur[w1] # 0
        /\ cur[w2] # 0

\* C6. An attempt that fails with an error that is no service error makes
\* the task Fatal at once, on whichever attempt it happens: its worker
\* panics without sleeping, and the task is never attempted again.
FatalNeverRetried ==
    /\ [](\A t \in Tasks :
            lastErr[t] = "PathError" =>
                /\ status[t] = "Fatal"
                /\ \E w \in Workers : cur[w] = t /\ pc[w] = "panicked")
    /\ [][\A t \in Tasks :
            lastErr[t] = "PathError" =>
                /\ attempts'[t] = attempts[t]
                /\ status'[t] = "Fatal"
                /\ lastErr'[t] = "PathError"]_vars

FatalNeverRetriedWitness ==
    \E t \in Tasks, w \in Workers :
        /\ lastErr[t] = "PathError"
        /\ attempts[t] = 3
        /\ fails[t] = 2
        /\ cur[w] = t
        /\ numRetries[w] = 28

\* C7. Once a task is Fatal Upload does not return, and no worker receives
\* a further task or starts a further attempt.
HardStop ==
    [][(\E t \in Tasks : status[t] = "Fatal") =>
          /\ phase' = phase
          /\ deq' = deq
          /\ attempts' = attempts]_vars

\* C8. When the walk reports an error for an entry it reaches, sourceFiles
\* returns an error and no list.
TraversalErrorsAbort ==
    (phase # "start" /\ WalkReports(tree)) => (enumErr # Nil /\ files = <<>>)

\* C9. When the enumerator fails, Upload returns (0, that error): nothing is
\* put in the channel, no worker is launched, there is no task to attempt.
EnumFailureFirst ==
    (phase # "start" /\ enumErr # Nil) =>
        /\ phase = "returned"
        /\ ret = [num |-> 0, err |-> enumErr]
        /\ files = <<>>
        /\ fch = <<>>
        /\ launched = 0
        /\ wg = 0
        /\ \A w \in Workers : pc[w] = "none"

EnumFailureFirstWitness ==
    /\ phase = "returned"
    /\ enumErr = "StatError"
    /\ ret = [num |-> 0, err |-> "StatError"]
    /\ Len(tree.kids) = 2

\* C10. With at least one worker, when Upload has returned normally every
\* launched worker has left its loop, the channel is empty, no task is in
\* flight or waiting for a retry, every task is in Success and the total is
\* the number of tasks whose live transfer succeeded.
ReturnAfterWorkers ==
    (phase = "returned" /\ ret.err = Nil /\ parallel >= 1) =>
        /\ \A w \in Workers : pc[w] \in {"none", "exited"}
        /\ fch = <<>>
        /\ \A t \in Tasks : status[t] = "Success"
        /\ ret.num = Cardinality({t \in Tasks : Live(t)})

\* C11. A worker in its backoff for task t receives no other task and its
\* next step is the next attempt on t, with its retry count untouched;
\* meanwhile every step of every other worker is as enabled as its own
\* position makes it: receive, attempt, add and exit.
BackoffIsLocal ==
    /\ [](\A w \in Workers :
            (pc[w] = "sleep" /\ Running) =>
                \A v \in Workers \ {w} :
                    /\ (pc[v] = "range" /\ fch # <<>>) => ENABLED WorkerRecv(v)
                    /\ (pc[v] = "range" /\ fch = <<>>) => ENABLED WorkerExit(v)
                    /\ pc[v] = "upload" => ENABLED WorkerUpload(v)
                    /\ pc[v] = "add" => ENABLED WorkerAdd(v))
    /\ [][\A w \in Workers :
            pc[w] = "sleep" =>
                /\ cur'[w] = cur[w]
                /\ numRetries'[w] = numRetries[w]
                /\ pc'[w] \in {"sleep", "upload"}
                /\ pc'[w] = "upload" => status'[cur[w]] = "InFlight"]_vars

BackoffIsLocalWitness ==
    \E w, v \in Workers :
        /\ w # v
        /\ pc[w] = "sleep"
        /\ fails[cur[w]] = 2
        /\ pc[v] = "range"
        /\ cur[v] # 0
        /\ added[cur[v]] = 1
        /\ ~crashed

\* C12. isUploadableFile tries the patterns in order; the first pattern that
\* matches the path or does not compile decides: a match gives (false, nil),
\* a pattern that does not compile gives its error; with neither, (true,
\* nil). So, without an error, the answer is false exactly when some pattern
\* matches the path.
FirstHit(S, P) ==
    {i \in 1..Len(S) :
        /\ Malformed(S[i]) \/ GlobMatch(S[i], P)
        /\ \A j \in 1..(i - 1) : ~Malformed(S[j]) /\ ~GlobMatch(S[j], P)}

FilterCorrect ==
    verdict.done =>
        /\ FirstHit(ignore, probe) = {} =>
              verdict.ok /\ verdict.err = Nil
        /\ \A i \in FirstHit(ignore, probe) :
              IF Malformed(ignore[i])
              THEN ~verdict.ok /\ verdict.err = "ErrBadPattern"
              ELSE ~verdict.ok /\ verdict.err = Nil
        /\ verdict.err = Nil =>
              (~verdict.ok <=>
                  \E i \in 1..Len(ignore) :
                      ~Malformed(ignore[i]) /\ GlobMatch(ignore[i], probe))

FilterCorrectWitness ==
    /\ verdict.done
    /\ Len(ignore) = 2
    /\ ~Malformed(ignore[1])
    /\ ~GlobMatch(ignore[1], probe)
    /\ Malformed(ignore[2])
    /\ verdict.err = "ErrBadPattern"

\* C13. For a tree walked without error, sourceFiles returns exactly the
\* relative paths of the regular files whose own relative path matches no
\* ignore pattern, each once, never the root or a directory; so a pattern
\* matching only P removes only P, and a match on a directory leaves the
\* files below it in the list.
RECURSIVE HasStatErr(_)
HasStatErr(node) ==
    \/ node.statErr
    \/ \E i \in 1..Len(node.kids) : HasStatErr(node.kids[i])

RECURSIVE RegularFiles(_, _)
\* The paths, relative to the directory whose entries are kids, of the
\* regular files below it; rel is that directory's own relative path.
RegularFiles(rel, kids) ==
    IF kids = <<>> THEN {}
    ELSE LET kid == Head(kids)
             p == IF rel = <<>> THEN kid.name ELSE rel \o <<"/">> \o kid.name
         IN  (IF kid.isDir THEN RegularFiles(p, kid.kids) ELSE {p})
                 \cup RegularFiles(rel, Tail(kids))

Ignored(S, P) == \E i \in 1..Len(S) : GlobMatch(S[i], P)

WalkedWithoutError ==
    /\ phase # "start"
    /\ ~WalkReports(tree)
    /\ ~HasStatErr(tree)
    /\ \A i \in 1..Len(ignore) : ~Malformed(ignore[i])

ExpectedFiles ==
    IF tree.isDir
    THEN {p \in RegularFiles(<<>>, tree.kids) : ~Ignored(ignore, p)}
    ELSE {}

EnumerationResult ==
    WalkedWithoutError =>
        /\ enumErr = Nil
        /\ {files[i] : i \in 1..Len(files)} = ExpectedFiles
        /\ Len(files) = Cardinality(ExpectedFiles)

\* C13 for every source root but "/": there the claim holds.
EnumerationResultBelowRoot ==
    (WalkedWithoutError /\ SourcePath # <<"/">>) =>
        /\ enumErr = Nil
        /\ {files[i] : i \in 1..Len(files)} = ExpectedFiles
        /\ Len(files) = Cardinality(ExpectedFiles)

EnumerationResultBelowRootWitness ==
    /\ WalkedWithoutError
    /\ SourcePath = Root
    /\ ignore = << <<"s">> >>
    /\ files = << <<"a">>, <<"s", "/", "c">> >>

\* C14: destination key. As stated: for every prefix, the empty one included,
\* and every relative path, the key of the put request and of the progress
\* message is "/" + prefix + "/" + path.
RelPath(s) ==
    /\ s # <<>>
    /\ \A e \in {Split(s)[i] : i \in 1..Len(Split(s))} :
           e # <<>> /\ e # <<".">> /\ e # <<".", ".">>

KeyIsConcatenation ==
    (verdict.done /\ "key" \in DOMAIN verdict /\ RelPath(probe.path)) =>
        /\ verdict.key = <<"/">> \o probe.prefix \o <<"/">> \o probe.path
        /\ verdict.msg = verdict.key

\* C14 as it holds: the key is "/" + prefix + "/" + path for a prefix that is
\* itself a clean relative path, it is "/" + path for the empty prefix, and the
\* message always carries the put request's key.
KeyOfCleanPrefix ==
    (verdict.done /\ "key" \in DOMAIN verdict) =>
        /\ verdict.msg = verdict.key
        /\ (RelPath(probe.path) /\ RelPath(probe.prefix)) =>
               verdict.key = <<"/">> \o probe.prefix \o <<"/">> \o probe.path
        /\ (RelPath(probe.path) /\ probe.prefix = <<>>) =>
               verdict.key = <<"/">> \o probe.path

KeyOfCleanPrefixWitness ==
    /\ verdict.done
    /\ "key" \in DOMAIN verdict
    /\ probe.prefix = <<"p">>
    /\ probe.path = <<"s", "/", "c">>
    /\ verdict.key = <<"/", "p", "/", "s", "/", "c">>

\* C15: run termination. With at least one worker and fair scheduling, a run
\* whose workers are being launched ends: either Upload returns without error
\* with every task in Success, or the process is ended by a Fatal task. No run
\* stays forever with a task Pending, InFlight or RetryPending.
AllSuccess == \A t \in Tasks : status[t] = "Success"

RunTerminates ==
    (phase = "launch" /\ parallel >= 1) ~>
        \/ crashed
        \/ phase = "returned" /\ ret.err = Nil /\ AllSuccess

RunTerminatesWitness ==
    /\ parallel >= 1
    /\ phase = "returned"
    /\ ret.err = Nil
    /\ ~crashed
    /\ Len(files) = MaxFiles
    /\ AllSuccess
    /\ \E t \in Tasks : fails[t] = MaxRetries - 1
    /\ \A w \in Workers : pc[w] \in {"none", "exited"}

\* C16: task state machine. A task starts Pending and moves only
\* Pending -> InFlight, InFlight -> Success, InFlight -> RetryPending,
\* RetryPending -> InFlight or InFlight -> Fatal; a task in Success or Fatal
\* is never attempted again; a task enters InFlight from RetryPending at most
\* 29 times.
TaskMoves ==
    {<<"Pending", "InFlight">>, <<"InFlight", "Success">>,
     <<"InFlight", "RetryPending">>, <<"RetryPending", "InFlight">>,
     <<"InFlight", "Fatal">>}

\* How often task t has entered InFlight from RetryPending: every attempt, and
\* the one about to be made, follows one entry, the first of them from Pending.
Reentries(t) ==
    IF deq[t] = 0 THEN 0
    ELSE attempts[t] + (IF status[t] = "InFlight" THEN 1 ELSE 0) - 1

TaskStep ==
    /\ \A t \in DOMAIN status' \ DOMAIN status : status'[t] = "Pending"
    /\ \A t \in DOMAIN status :
        /\ t \in DOMAIN status'
        /\ status'[t] # status[t] => <<status[t], status'[t]>> \in TaskMoves
        /\ status[t] \in {"Success", "Fatal"} =>
               /\ status'[t] = status[t]
               /\ attempts'[t] = attempts[t]
               /\ puts'[t] = puts[t]
               /\ deq'[t] = deq[t]
        /\ Reentries(t)' =
               Reentries(t) + (IF status[t] = "RetryPending"
                                  /\ status'[t] = "InFlight" THEN 1 ELSE 0)

TaskStateMachine ==
    /\ [][TaskStep]_vars
    /\ [](\A t \in Tasks : Reentries(t) \in 0..(MaxRetries - 1))

TaskStateMachineWitness ==
    /\ \E t \in Tasks : status[t] = "Fatal" /\ Reentries(t) = MaxRetries - 1
    /\ \E t \in Tasks : status[t] = "Success" /\ added[t] = 1

\* C17: counter invariant. The shared counter never decreases; it changes only
\* in the atomic add that follows a successful attempt, by the 0 or 1 that
\* attempt returned; it never exceeds the number of tasks whose live transfer
\* succeeded; it is incremented once for each such task, and never for a failed
\* attempt, a retry or a dry-run task.
RECURSIVE SumSeq(_)
SumSeq(s) == IF s = <<>> THEN 0 ELSE Head(s) + SumSeq(Tail(s))

\* Worker w is at line 215 with the result of task t.
Adding(w, t) == pc[w] = "add" /\ cur[w] = t

CounterStep ==
    /\ num' >= num
    /\ num' # num =>
        /\ num' = num + 1
        /\ ~dryrun
        /\ \E w \in Workers :
            /\ Adding(w, cur[w])
            /\ n[w] = 1
            /\ status[cur[w]] = "Success"
            /\ lastErr[cur[w]] = Nil
            /\ added'[cur[w]] = added[cur[w]] + 1
            /\ pc'[w] = "range"
    /\ \A w \in Workers : Adding(w, cur[w]) => n[w] \in {0, 1}

CounterState ==
    /\ num = SumSeq(added)
    /\ num <= Cardinality({t \in Tasks : Live(t)})
    /\ \A t \in Tasks :
        /\ added[t] \in {0, 1}
        /\ added[t] = 1 => Live(t) /\ ~dryrun
        /\ (Live(t) /\ \A w \in Workers : ~Adding(w, t)) => added[t] = 1
        /\ status[t] # "Success" => added[t] = 0

CounterInvariant == [][CounterStep]_vars /\ []CounterState

CounterInvariantWitness ==
    /\ phase = "launch"
    /\ ~dryrun
    /\ num = 1
    /\ \E t \in Tasks : added[t] = 1 /\ fails[t] > 0
    /\ \E t \in Tasks, w \in Workers : Live(t) /\ Adding(w, t) /\ added[t] = 0

\* C18: zero or negative parallelism. When parallel <= 0 and the enumeration
\* succeeded, no worker is launched and Upload returns (0, nil) at once, in a
\* live run as in a dry run, with every enumerated path still in the channel
\* and no task attempted.
Untouched ==
    /\ launched = 0
    /\ wg = 0
    /\ num = 0
    /\ ~crashed
    /\ \A w \in Workers : pc[w] = "none"
    /\ \A t \in Tasks : status[t] = "Pending" /\ attempts[t] = 0 /\ deq[t] = 0

NoWorkers ==
    (parallel <= 0 /\ enumErr = Nil) =>
        /\ phase = "launch" =>
               /\ Untouched
               /\ fch = files
               /\ ENABLED WaitReturn
               /\ ~ENABLED Launch
        /\ phase = "returned" =>
               /\ Untouched
               /\ fch = files
               /\ ret = [num |-> 0, err |-> Nil]

NoWorkersWitness ==
    /\ parallel = -1
    /\ ~dryrun
    /\ phase = "returned"
    /\ ret = [num |-> 0, err |-> Nil]
    /\ Len(files) = MaxFiles
    /\ fch = files

\* C19: the retry budget is per task. Each receive from the channel sets the
\* worker's numRetries to 30 whatever an earlier task left of it, so a later
\* task of the same worker has all its attempts; while a worker holds a task
\* the counter is 30 less that task's own failures, and it stays in 0..30.
Holding(w) == pc[w] \in {"upload", "sleep", "add", "panicked"}

BudgetStep ==
    \A w \in Workers :
        (pc[w] = "range" /\ pc'[w] = "upload") =>
            /\ numRetries'[w] = MaxRetries
            /\ fails'[cur'[w]] = 0

BudgetState ==
    \A w \in Workers :
        /\ numRetries[w] \in 0..MaxRetries
        /\ Holding(w) => numRetries[w] = MaxRetries - fails[cur[w]]

BudgetPerTask == [][BudgetStep]_vars /\ []BudgetState

BudgetPerTaskWitness ==
    \E w \in Workers :
        /\ parallel = 1
        /\ cur[w] = 2
        /\ pc[w] = "sleep"
        /\ numRetries[w] = 1
        /\ fails[2] = MaxRetries - 1
        /\ status[1] = "Success"
        /\ fails[1] = MaxRetries - 1

\* C20: a dry run never retries. In a dry run every task received from the
\* channel is attempted once: the only error of an attempt is that of os.Open,
\* which is no service error, so no worker ever sleeps and a task ends in
\* Success with nothing added to the counter or in Fatal after one attempt.
DryRunSingleAttempt ==
    dryrun =>
        /\ num = 0
        /\ \A w \in Workers : pc[w] # "sleep" /\ n[w] = 0
        /\ \A w \in Workers : Holding(w) => numRetries[w] = MaxRetries
        /\ \A t \in Tasks :
            /\ attempts[t] <= 1
            /\ fails[t] = 0
            /\ puts[t] = 0
            /\ status[t] # "RetryPending"
            /\ status[t] \in {"Pending", "InFlight"} => attempts[t] = 0
            /\ status[t] = "Success" =>
                   attempts[t] = 1 /\ lastErr[t] = Nil /\ added[t] = 0
            /\ status[t] = "Fatal" =>
                   attempts[t] = 1 /\ lastErr[t] = "PathError"

DryRunSingleAttemptWitness ==
    /\ dryrun
    /\ flaky # {}
    /\ Len(files) = MaxFiles
    /\ \E t \in Tasks : t \in flaky /\ status[t] = "Success" /\ attempts[t] = 1
    /\ \E t \in Tasks : status[t] = "Fatal" /\ lastErr[t] = "PathError"

TypeOK ==
    /\ phase \in {"start", "load", "launch", "returned"}
    /\ num \in 0..MaxFiles
    /\ wg \in 0..MaxParallel
    /\ \A w \in Workers :
        /\ pc[w] \in {"none", "range", "upload", "sleep", "add", "exited", "panicked"}
        /\ numRetries[w] \in 0..MaxRetries
        /\ cur[w] \in 0..Len(files)

====
